---- MODULE Spec2Model ----
(***************************************************************************)
(* Model of the report-extraction and aggregation pipeline of main.py and  *)
(* utils.py: load_json_report, process_microorganisms, process_amr_markers,*)
(* the per-sample loop of main(), the concatenation and export of the two  *)
(* aggregate tables, plot_counts, plot_relative_abundance and move_results.*)
(*                                                                         *)
(* JSON values are tagged records [t, v]; "absent" stands for a key that   *)
(* is not in its mapping, "null" for JSON null (Python None).  Fractional  *)
(* fields (ani, rpkm, coverage) are carried in thousandths.                *)
(*                                                                         *)
(* The model describes the program once its modules are loaded.  utils.py  *)
(* line 15 names typing.Tuple without importing it: an interpreter that    *)
(* evaluates annotations when a function is defined raises NameError on    *)
(* "from utils import ..." and nothing below is ever run.                  *)
(***************************************************************************)
EXTENDS Integers, Sequences, FiniteSets, TLC

VARIABLES
    pc,               \* position of main()
    reports,          \* per discovered sample: what its report file holds
    sample_names,     \* result of extract_sample_info()
    sample_idx,       \* loop index of "for sample_i in sample_names"
    all_mo_tables,    \* list of per-sample microorganism tables
    all_amr_tables,   \* list of per-sample AMR tables
    final_mo_df,      \* concatenated microorganism table
    final_amr_df,     \* concatenated AMR table
    total_reads_dict, \* Sample label -> sum of alignedReadCount
    table_paths,      \* exported spreadsheet paths
    plot_paths,       \* chart paths to relocate
    ra_todo,          \* samples still to visit in plot_relative_abundance
    ra_entries,       \* Sample label -> ranked relative abundance entries
    move_idx,         \* loop index of move_results
    files,            \* file system: path -> "none" | "old" | "new"
    log,              \* logger calls made so far, in order
    printed,          \* what main() printed: "none" | "success" | "fatal"
    fails,            \* number of injected I/O failures so far
    attempted,        \* artifact operations attempted (charts, relocations)
    xin,              \* extractor harness: the report handed to an extractor
    xout              \* extractor harness: what the extractor returned

vars == << pc, reports, sample_names, sample_idx, all_mo_tables, all_amr_tables,
           final_mo_df, final_amr_df, total_reads_dict, table_paths, plot_paths,
           ra_todo, ra_entries, move_idx, files, log, printed, fails, attempted,
           xin, xout >>

---------------------------------------------------------------------------
(* Bounds of the model *)

MaxItems == 2
MaxSamples == 2
MaxFail == 1
MaxPaths == 2

---------------------------------------------------------------------------
(* JSON values *)

Absent == [t |-> "absent", v |-> 0]
Null == [t |-> "null", v |-> 0]
Num(n) == [t |-> "num", v |-> n]
Str(n) == [t |-> "str", v |-> n]
Bool(b) == [t |-> "bool", v |-> IF b THEN 1 ELSE 0]

\* dict.get(key, default): the default only when the key is missing
Get(val, default) == IF val.t = "absent" THEN default ELSE val

\* Python truth value of a JSON scalar
Truthy(val) ==
    CASE val.t = "bool" -> val.v = 1
      [] val.t = "num" -> val.v # 0
      [] val.t = "str" -> TRUE
      [] OTHER -> FALSE

\* round(x, 2) and "x > 5" raise TypeError on None and on str
IsNumeric(val) == val.t \in {"num", "bool"}

\* round(x, 2) on a value in thousandths (ties to the even hundredth)
Round2(n) ==
    LET q == n \div 10
        r == n % 10
    IN  IF r < 5 THEN 10 * q
        ELSE IF r > 5 THEN 10 * (q + 1)
        ELSE IF q % 2 = 0 THEN 10 * q ELSE 10 * (q + 1)

PresenceThreshold == 5

SampleLabel(sample_i) == << "sample", sample_i >>

\* logging.basicConfig(level=logging.ERROR): what reaches processing_errors.log
LogFile(calls) == SelectSeq(calls, LAMBDA e : e.level \in {"ERROR", "CRITICAL"})

LogEntry(level, what, sample_i) == [level |-> level, what |-> what, sample |-> sample_i]

---------------------------------------------------------------------------
(* Shapes of the JSON documents.  A mapping that may be missing, null or  *)
(* present carries its kind in k.                                          *)

EIAbsent == [k |-> "absent", predictedPresent |-> Absent]
EINull == [k |-> "null", predictedPresent |-> Absent]
EIObj(pp) == [k |-> "obj", predictedPresent |-> pp]

ListAbsent == [k |-> "absent", items |-> << >>]
ListNull == [k |-> "null", items |-> << >>]
ListOf(items) == [k |-> "list", items |-> items]

AMAbsent == [k |-> "absent", all |-> ListAbsent]
AMNull == [k |-> "null", all |-> ListAbsent]
AMObj(lst) == [k |-> "obj", all |-> lst]

MoItem(name, arc, ani, cls, ei) ==
    [k |-> "obj", name |-> name, alignedReadCount |-> arc, ani |-> ani,
     rpkm |-> Num(3004), class |-> cls, phenotypicGroup |-> Absent,
     explifyInterpretation |-> ei]

\* a list entry that is JSON null instead of a mapping
MoNullItem ==
    [k |-> "null", name |-> Absent, alignedReadCount |-> Absent, ani |-> Absent,
     rpkm |-> Absent, class |-> Absent, phenotypicGroup |-> Absent,
     explifyInterpretation |-> EIAbsent]

AmrItem(name, coverage, am, ei) ==
    [k |-> "obj", name |-> name, class |-> Str(7), geneFamily |-> Absent,
     coverage |-> coverage, medianDepth |-> Num(12),
     associatedMicroorganisms |-> am, explifyInterpretation |-> ei]

AmrNullItem ==
    [k |-> "null", name |-> Absent, class |-> Absent, geneFamily |-> Absent,
     coverage |-> Absent, medianDepth |-> Absent,
     associatedMicroorganisms |-> AMAbsent, explifyInterpretation |-> EIAbsent]

TRAbsent == [k |-> "absent", microorganisms |-> ListAbsent, amrMarkers |-> ListAbsent]
TRNull == [k |-> "null", microorganisms |-> ListAbsent, amrMarkers |-> ListAbsent]
TRObj(mo, amr) == [k |-> "obj", microorganisms |-> mo, amrMarkers |-> amr]

DocObj(tr) == [k |-> "obj", targetReport |-> tr]
DocNull == [k |-> "null", targetReport |-> TRAbsent]

\* what open() + json.load() meet for one sample
FileOk(doc) == [load |-> "ok", doc |-> doc]
FileNotFound == [load |-> "notfound", doc |-> DocNull]
FileBadJson == [load |-> "badjson", doc |-> DocNull]
FileIOError == [load |-> "ioerror", doc |-> DocNull]

---------------------------------------------------------------------------
(* utils.py *)

load_json_report(sample_i, rep) ==
    CASE rep.load = "notfound" ->
            [isNone |-> TRUE, doc |-> DocNull,
             log |-> << LogEntry("ERROR", "report_not_found", sample_i) >>]
      [] rep.load = "badjson" ->
            [isNone |-> TRUE, doc |-> DocNull,
             log |-> << LogEntry("ERROR", "json_decode", sample_i) >>]
      [] rep.load = "ioerror" ->
            [isNone |-> TRUE, doc |-> DocNull,
             log |-> << LogEntry("ERROR", "read_unexpected", sample_i) >>]
      [] OTHER ->
            \* json.load of the document "null" returns None as well
            [isNone |-> rep.doc.k = "null", doc |-> rep.doc, log |-> << >>]

\* item.get('explifyInterpretation', {}).get('predictedPresent', False)
PredictedPresentOf(item) ==
    IF item.explifyInterpretation.k = "absent"
    THEN Bool(FALSE)
    ELSE Get(item.explifyInterpretation.predictedPresent, Bool(FALSE))

\* the comparison written inclusively (>= 5)
PresenceOfInclusive(predicted_present, aligned_count) ==
    IF Truthy(predicted_present)
    THEN predicted_present
    ELSE Bool(aligned_count.v >= PresenceThreshold)

\* predicted_present or (aligned_count > 5)
PresenceOf(predicted_present, aligned_count) ==
    IF Truthy(predicted_present)
    THEN predicted_present
    ELSE Bool(aligned_count.v > PresenceThreshold)

\* one pass of the loop body raises (AttributeError, TypeError)
MoItemRaises(item) ==
    \/ item.k # "obj"
    \/ item.explifyInterpretation.k = "null"
    \/ ~IsNumeric(Get(item.ani, Num(0)))
    \/ ~IsNumeric(Get(item.rpkm, Num(0)))
    \/ /\ ~Truthy(PredictedPresentOf(item))
       /\ ~IsNumeric(Get(item.alignedReadCount, Num(0)))

MoRow(sample_i, item) ==
    LET ani == Get(item.ani, Num(0))
        rpkm == Get(item.rpkm, Num(0))
        aligned_count == Get(item.alignedReadCount, Num(0))
        predicted_present == PredictedPresentOf(item)
    IN  [Sample |-> SampleLabel(sample_i),
         Name |-> Get(item.name, Null),
         alignedReadCount |-> aligned_count,
         ani |-> Num(Round2(ani.v)),
         rpkm |-> Num(Round2(rpkm.v)),
         class |-> Get(item.class, Null),
         phenotypicGroup |-> Get(item.phenotypicGroup, Null),
         predictedPresent |-> predicted_present,
         Presence |-> PresenceOf(predicted_present, aligned_count)]

\* report.get('targetReport', {}).get(key, []) ; "not lst" is true for a
\* missing key, for null and for the empty list
ListIsFalsy(lst) == lst.k # "list" \/ Len(lst.items) = 0

process_microorganisms(sample_i, rep) ==
    LET loaded == load_json_report(sample_i, rep)
        tr == loaded.doc.targetReport
        trmo == tr.microorganisms
    IN  IF loaded.isNone
        THEN [isNone |-> TRUE, rows |-> << >>, log |-> loaded.log]
        ELSE IF tr.k = "null"
        THEN [isNone |-> TRUE, rows |-> << >>,
              log |-> << LogEntry("ERROR", "mo_processing", sample_i) >>]
        ELSE IF tr.k = "absent" \/ ListIsFalsy(trmo)
        THEN [isNone |-> TRUE, rows |-> << >>,
              log |-> << LogEntry("WARNING", "no_mo_data", sample_i) >>]
        ELSE IF \E i \in 1..Len(trmo.items) : MoItemRaises(trmo.items[i])
        THEN [isNone |-> TRUE, rows |-> << >>,
              log |-> << LogEntry("ERROR", "mo_processing", sample_i) >>]
        ELSE [isNone |-> FALSE,
              rows |-> [i \in 1..Len(trmo.items) |-> MoRow(sample_i, trmo.items[i])],
              log |-> << >>]

\* item.get('associatedMicroorganisms', {}).get('all', [None])[0] raises
FirstAssociatedRaises(item) ==
    \/ item.associatedMicroorganisms.k = "null"
    \/ /\ item.associatedMicroorganisms.k = "obj"
       /\ \/ item.associatedMicroorganisms.all.k = "null"
          \/ /\ item.associatedMicroorganisms.all.k = "list"
             /\ Len(item.associatedMicroorganisms.all.items) = 0

FirstAssociated(item) ==
    IF item.associatedMicroorganisms.k = "absent"
       \/ item.associatedMicroorganisms.all.k = "absent"
    THEN Null
    ELSE item.associatedMicroorganisms.all.items[1]

AmrItemRaises(item) ==
    \/ item.k # "obj"
    \/ FirstAssociatedRaises(item)
    \/ ~IsNumeric(Get(item.coverage, Num(0)))
    \/ item.explifyInterpretation.k = "null"

AmrRow(sample_i, item) ==
    LET coverage == Get(item.coverage, Num(0))
    IN  [SampleID |-> SampleLabel(sample_i),
         GeneName |-> Get(item.name, Null),
         Class |-> Get(item.class, Null),
         geneFamily |-> Get(item.geneFamily, Null),
         Coverage |-> Num(Round2(coverage.v)),
         medianDepth |-> Get(item.medianDepth, Null),
         associatedMicroorganisms |-> FirstAssociated(item),
         predictedPresent |-> PredictedPresentOf(item)]

process_amr_markers(sample_i, rep) ==
    LET loaded == load_json_report(sample_i, rep)
        tr == loaded.doc.targetReport
        tramr == tr.amrMarkers
    IN  IF loaded.isNone
        THEN [isNone |-> TRUE, rows |-> << >>, log |-> loaded.log]
        ELSE IF tr.k = "null"
        THEN [isNone |-> TRUE, rows |-> << >>,
              log |-> << LogEntry("ERROR", "amr_processing", sample_i) >>]
        ELSE IF tr.k = "absent" \/ ListIsFalsy(tramr)
        THEN [isNone |-> TRUE, rows |-> << >>,
              log |-> << LogEntry("WARNING", "no_amr_data", sample_i) >>]
        ELSE IF \E i \in 1..Len(tramr.items) : AmrItemRaises(tramr.items[i])
        THEN [isNone |-> TRUE, rows |-> << >>,
              log |-> << LogEntry("ERROR", "amr_processing", sample_i) >>]
        ELSE [isNone |-> FALSE,
              rows |-> [i \in 1..Len(tramr.items) |-> AmrRow(sample_i, tramr.items[i])],
              log |-> << >>]

---------------------------------------------------------------------------
(* pandas helpers of main.py *)

RECURSIVE Concat(_)
\* pd.concat(tables, ignore_index=True) of a non-empty list of tables
Concat(tables) ==
    IF tables = << >> THEN << >>
    ELSE Head(tables).rows \o Concat(Tail(tables))

RECURSIVE SumReads(_)
SumReads(rows) ==
    IF rows = << >> THEN 0
    ELSE Head(rows).alignedReadCount.v + SumReads(Tail(rows))

RowsOfSample(df, label) == SelectSeq(df, LAMBDA r : r.Sample = label)

\* the totals taken over the predicted-present rows only
GroupTotalsPresentOnly(df) ==
    [label \in {df[i].Sample : i \in 1..Len(df)} |->
        SumReads(SelectSeq(df, LAMBDA r : r.Sample = label /\ r.predictedPresent.v = 1))]

\* final_mo_df.groupby('Sample')['alignedReadCount'].sum().to_dict()
GroupTotals(df) ==
    [label \in {df[i].Sample : i \in 1..Len(df)} |-> SumReads(RowsOfSample(df, label))]

\* the comparison "== True" of pandas holds for True and for 1
IsTrue(val) == val.t \in {"bool", "num"} /\ val.v = 1

\* df[df['predictedPresent'] == True]
PresentRows(df) == SelectSeq(df, LAMBDA r : IsTrue(r.predictedPresent))

RECURSIVE UniqueSamples(_, _)
\* df['Sample'].unique(): the labels in order of first appearance
UniqueSamples(df, seen) ==
    IF df = << >> THEN << >>
    ELSE IF Head(df).Sample \in seen
         THEN UniqueSamples(Tail(df), seen)
         ELSE << Head(df).Sample >> \o UniqueSamples(Tail(df), seen \cup {Head(df).Sample})

\* the guard reduced to "the sample has a total"
TotalIsUsableUnchecked(totals, label) == label \in DOMAIN totals

\* total_reads_dict.get(sample_name); "if total_reads and total_reads > 0"
TotalIsUsable(totals, label) == label \in DOMAIN totals /\ totals[label] > 0

\* (alignedReadCount / total_reads) * 100, kept as the exact fraction num/den
RelativeAbundance(aligned_count, total_reads) ==
    [num |-> aligned_count * 100, den |-> total_reads]

RECURSIVE InsertDesc(_, _)
\* place e after every entry whose abundance is not smaller (stable)
InsertDesc(e, sorted) ==
    IF sorted = << >> THEN << e >>
    ELSE IF Head(sorted).relativeAbundance.num * e.relativeAbundance.den
            >= e.relativeAbundance.num * Head(sorted).relativeAbundance.den
         THEN << Head(sorted) >> \o InsertDesc(e, Tail(sorted))
         ELSE << e >> \o sorted

RECURSIVE SortDesc(_)
\* sort_values('relativeAbundance(%)', ascending=False)
SortDesc(entries) ==
    IF entries = << >> THEN << >>
    ELSE InsertDesc(entries[Len(entries)], SortDesc(SubSeq(entries, 1, Len(entries) - 1)))

\* the frame built for one sample in plot_relative_abundance
AbundanceEntries(df, totals, label) ==
    LET sample_df == RowsOfSample(PresentRows(df), label)
    IN  SortDesc([i \in 1..Len(sample_df) |->
                    [Sample |-> sample_df[i].Sample,
                     Name |-> sample_df[i].Name,
                     alignedReadCount |-> sample_df[i].alignedReadCount.v,
                     relativeAbundance |->
                         RelativeAbundance(sample_df[i].alignedReadCount.v, totals[label])]])

---------------------------------------------------------------------------
(* Inputs of a run *)

PresentItem(n) == MoItem(Str(1), Num(n), Num(99126), Str(1), EIObj(Bool(TRUE)))
NotPresentItem(n) == MoItem(Str(2), Num(n), Absent, Str(2), EIObj(Bool(FALSE)))
MarkerItem == AmrItem(Str(3), Num(87654), AMObj(ListOf(<< Str(1) >>)), EIAbsent)

\* repeated entries, out of rank order, and one not predicted present
GoodMoList ==
    ListOf(<< PresentItem(6), PresentItem(80), NotPresentItem(20), PresentItem(6) >>)
ZeroTotalMoList == ListOf(<< PresentItem(0) >>)
NotPresentMoList == ListOf(<< NotPresentItem(6) >>)
BrokenMoList == ListOf(<< PresentItem(6), MoNullItem >>)
MarkerList == ListOf(<< MarkerItem >>)

\* the reports a sample directory of a run may hold
RunDocs ==
    { DocObj(TRObj(GoodMoList, MarkerList)),
      DocObj(TRObj(ZeroTotalMoList, MarkerList)),
      DocObj(TRObj(NotPresentMoList, MarkerList)),
      DocObj(TRObj(BrokenMoList, MarkerList)),
      DocObj(TRObj(ListOf(<< >>), MarkerList)),
      DocObj(TRObj(GoodMoList, ListAbsent)),
      DocObj(TRObj(ListOf(<< >>), ListAbsent)) }

RunFiles ==
    { FileNotFound, FileBadJson, FileIOError } \cup { FileOk(doc) : doc \in RunDocs }

---------------------------------------------------------------------------
(* File system.  A path is << directory, base name, sample >>. *)

TABLES_DIR == "Results/Tables"
PLOTS_DIR == "Results/Plots"
CWD == "."

MoTable == << "Microorganisms_table.xlsx", 0 >>
AmrTable == << "amrMarkers_table.xlsx", 0 >>
PresentChart == << "predictedPresent.jpg", 0 >>
ClassChart == << "class.jpg", 0 >>
\* f"normalised_relativeAbundance_{sample_name}.jpg"
AbundanceChart(label) == << "normalised_relativeAbundance.jpg", label[2] >>

TableNames == { MoTable, AmrTable }
ChartNames == { PresentChart, ClassChart }
                 \cup { AbundanceChart(SampleLabel(i)) : i \in 1..MaxSamples }

InDir(dir, name) == << dir, name >>

Paths ==
    { InDir(CWD, n) : n \in TableNames \cup ChartNames }
    \cup { InDir(TABLES_DIR, n) : n \in TableNames }
    \cup { InDir(PLOTS_DIR, n) : n \in ChartNames }

DestPaths == { p \in Paths : p[1] # CWD }

\* one pass of the loop of move_results; outcome says where, if anywhere,
\* the pass raises: "ok", "remove" (os.remove) or "move" (shutil.move)
MoveOne(fs, path, target_dir, outcome) ==
    LET final_path == InDir(target_dir, path[2])
        removed == IF fs[final_path] # "none" /\ outcome # "remove"
                   THEN [fs EXCEPT ![final_path] = "none"]
                   ELSE fs
    IN  IF fs[final_path] # "none" /\ outcome = "remove"
        THEN fs
        ELSE IF removed[path] # "none" /\ outcome = "ok"
        THEN [removed EXCEPT ![final_path] = removed[path], ![path] = "none"]
        ELSE removed

\* what the same pass logs
MoveOneLog(fs, path, target_dir, outcome) ==
    IF fs[InDir(target_dir, path[2])] # "none" /\ outcome = "remove"
    THEN << LogEntry("ERROR", "move_failed", path[2][2]) >>
    ELSE IF fs[path] = "none"
    THEN << LogEntry("ERROR", "move_source_missing", path[2][2]) >>
    ELSE IF outcome = "move"
    THEN << LogEntry("ERROR", "move_failed", path[2][2]) >>
    ELSE << >>

\* the places where a pass can raise in file system state fs
MoveOutcomes(fs, path, target_dir) ==
    { "ok" }
    \cup (IF fs[InDir(target_dir, path[2])] # "none" THEN { "remove" } ELSE { })
    \cup (IF fs[path] # "none" THEN { "move" } ELSE { })

---------------------------------------------------------------------------
(* main.py: main() *)

NoTable == << >>
NoTotals == [label \in {} |-> 0]
HarnessIdle == [call |-> "none", sample |-> 0, file |-> FileNotFound]
HarnessNoResult == [isNone |-> TRUE, rows |-> << >>, log |-> << >>]

Init ==
    /\ pc = "setup"
    /\ \E n \in 0..MaxSamples : reports \in [1..n -> RunFiles]
    /\ sample_names = << >>
    /\ sample_idx = 0
    /\ all_mo_tables = << >>
    /\ all_amr_tables = << >>
    /\ final_mo_df = NoTable
    /\ final_amr_df = NoTable
    /\ total_reads_dict = NoTotals
    /\ table_paths = << >>
    /\ plot_paths = << >>
    /\ ra_todo = << >>
    /\ ra_entries = NoTotals
    /\ move_idx = 0
    \* a first run, or a run over the results of an earlier one
    /\ \E earlier \in {"none", "old"} :
          files = [p \in Paths |-> IF p \in DestPaths THEN earlier ELSE "none"]
    /\ log = << >>
    /\ printed = "none"
    /\ fails = 0
    /\ attempted = {}
    /\ xin = HarnessIdle
    /\ xout = HarnessNoResult

\* the "except Exception" of main(): logger.critical and the failure message
Fatal(entries) ==
    /\ log' = log \o entries \o << LogEntry("CRITICAL", "fatal", 0) >>
    /\ printed' = "fatal"
    /\ pc' = "done"

\* setup_environment() creates or finds the three directories
SetupOk ==
    /\ pc = "setup"
    /\ pc' = "discover"
    /\ log' = log \o << LogEntry("INFO", "dirs_ready", 0) >>
    /\ UNCHANGED << reports, sample_names, sample_idx, all_mo_tables, all_amr_tables,
                    final_mo_df, final_amr_df, total_reads_dict, table_paths,
                    plot_paths, ra_todo, ra_entries, move_idx, files, printed, fails,
                    attempted, xin, xout >>

\* os.mkdir raises: setup_environment logs and re-raises
SetupFails ==
    /\ pc = "setup"
    /\ fails < MaxFail
    /\ fails' = fails + 1
    /\ Fatal(<< LogEntry("ERROR", "setup_failed", 0) >>)
    /\ UNCHANGED << reports, sample_names, sample_idx, all_mo_tables, all_amr_tables,
                    final_mo_df, final_amr_df, total_reads_dict, table_paths,
                    plot_paths, ra_todo, ra_entries, move_idx, files, attempted,
                    xin, xout >>

\* extract_sample_info(): the identifiers of the sample directories, in order
Discover ==
    /\ pc = "discover"
    /\ sample_names' = [i \in DOMAIN reports |-> i]
    /\ IF DOMAIN reports = {}
       THEN /\ log' = log \o << LogEntry("WARNING", "no_samples", 0) >>
            /\ pc' = "done"
            /\ sample_idx' = sample_idx
       ELSE /\ log' = log
            /\ pc' = "samples"
            /\ sample_idx' = 1
    /\ UNCHANGED << reports, all_mo_tables, all_amr_tables, final_mo_df, final_amr_df,
                    total_reads_dict, table_paths, plot_paths, ra_todo, ra_entries,
                    move_idx, files, printed, fails, attempted, xin, xout >>

\* the loop body without its guards: a report that cannot be loaded ends the run
ProcessSampleUnguarded ==
    /\ pc = "samples"
    /\ sample_idx <= Len(sample_names)
    /\ LET sample_i == sample_names[sample_idx]
           mo_table == process_microorganisms(sample_i, reports[sample_i])
           amr_table == process_amr_markers(sample_i, reports[sample_i])
       IN  IF reports[sample_i].load # "ok"
           THEN /\ Fatal(mo_table.log)
                /\ UNCHANGED << all_mo_tables, all_amr_tables, sample_idx >>
           ELSE /\ all_mo_tables' = IF mo_table.isNone THEN all_mo_tables
                                    ELSE Append(all_mo_tables, mo_table)
                /\ all_amr_tables' = IF amr_table.isNone THEN all_amr_tables
                                     ELSE Append(all_amr_tables, amr_table)
                /\ log' = log \o mo_table.log \o amr_table.log
                /\ sample_idx' = sample_idx + 1
                /\ UNCHANGED << pc, printed >>
    /\ UNCHANGED << reports, sample_names, final_mo_df, final_amr_df,
                    total_reads_dict, table_paths, plot_paths, ra_todo, ra_entries,
                    move_idx, files, fails, attempted, xin, xout >>

\* one pass of "for sample_i in sample_names"
ProcessSample ==
    /\ pc = "samples"
    /\ sample_idx <= Len(sample_names)
    /\ LET sample_i == sample_names[sample_idx]
           mo_table == process_microorganisms(sample_i, reports[sample_i])
           amr_table == process_amr_markers(sample_i, reports[sample_i])
       IN  /\ all_mo_tables' = IF mo_table.isNone THEN all_mo_tables
                               ELSE Append(all_mo_tables, mo_table)
           /\ all_amr_tables' = IF amr_table.isNone THEN all_amr_tables
                                ELSE Append(all_amr_tables, amr_table)
           /\ log' = log \o mo_table.log \o amr_table.log
    /\ sample_idx' = sample_idx + 1
    /\ UNCHANGED << pc, reports, sample_names, final_mo_df, final_amr_df,
                    total_reads_dict, table_paths, plot_paths, ra_todo, ra_entries,
                    move_idx, files, printed, fails, attempted, xin, xout >>

\* "if not all_mo_tables and not all_amr_tables": log and return
NoData ==
    /\ pc = "samples"
    /\ sample_idx > Len(sample_names)
    /\ all_mo_tables = << >> /\ all_amr_tables = << >>
    /\ log' = log \o << LogEntry("ERROR", "no_data", 0) >>
    /\ pc' = "done"
    /\ UNCHANGED << reports, sample_names, sample_idx, all_mo_tables, all_amr_tables,
                    final_mo_df, final_amr_df, total_reads_dict, table_paths,
                    plot_paths, ra_todo, ra_entries, move_idx, files, printed, fails,
                    attempted, xin, xout >>

\* pd.concat of an empty list raises ValueError
ConcatRaises ==
    /\ pc = "samples"
    /\ sample_idx > Len(sample_names)
    /\ ~(all_mo_tables = << >> /\ all_amr_tables = << >>)
    /\ all_mo_tables = << >> \/ all_amr_tables = << >>
    /\ final_mo_df' = IF all_mo_tables = << >> THEN final_mo_df ELSE Concat(all_mo_tables)
    /\ Fatal(<< >>)
    /\ UNCHANGED << reports, sample_names, sample_idx, all_mo_tables, all_amr_tables,
                    final_amr_df, total_reads_dict, table_paths, plot_paths, ra_todo,
                    ra_entries, move_idx, files, fails, attempted, xin, xout >>

ConcatTables ==
    /\ pc = "samples"
    /\ sample_idx > Len(sample_names)
    /\ all_mo_tables # << >> /\ all_amr_tables # << >>
    /\ final_mo_df' = Concat(all_mo_tables)
    /\ final_amr_df' = Concat(all_amr_tables)
    /\ pc' = "export"
    /\ UNCHANGED << reports, sample_names, sample_idx, all_mo_tables, all_amr_tables,
                    total_reads_dict, table_paths, plot_paths, ra_todo, ra_entries,
                    move_idx, files, log, printed, fails, attempted, xin, xout >>

\* both to_excel calls succeed; then the per-sample totals are computed
ExportTables ==
    /\ pc = "export"
    /\ files' = [files EXCEPT ![InDir(CWD, MoTable)] = "new",
                              ![InDir(CWD, AmrTable)] = "new"]
    /\ table_paths' = << InDir(CWD, MoTable), InDir(CWD, AmrTable) >>
    /\ total_reads_dict' = GroupTotals(final_mo_df)
    /\ pc' = "plot_present"
    /\ UNCHANGED << reports, sample_names, sample_idx, all_mo_tables, all_amr_tables,
                    final_mo_df, final_amr_df, plot_paths, ra_todo, ra_entries,
                    move_idx, log, printed, fails, attempted, xin, xout >>

\* a to_excel call raises: the first table may already be on disk
ExportFails ==
    /\ pc = "export"
    /\ fails < MaxFail
    /\ fails' = fails + 1
    /\ \E first_written \in BOOLEAN :
          files' = IF first_written
                   THEN [files EXCEPT ![InDir(CWD, MoTable)] = "new"]
                   ELSE files
    /\ Fatal(<< >>)
    /\ UNCHANGED << reports, sample_names, sample_idx, all_mo_tables, all_amr_tables,
                    final_mo_df, final_amr_df, total_reads_dict, table_paths,
                    plot_paths, ra_todo, ra_entries, move_idx, attempted, xin, xout >>

\* plot_counts(...) for one of the two count charts; ok = savefig succeeded
PlotCounts(chart, ok) ==
    /\ attempted' = attempted \cup { << "chart", chart >> }
    /\ IF ok
       THEN /\ files' = [files EXCEPT ![InDir(CWD, chart)] = "new"]
            /\ plot_paths' = Append(plot_paths, InDir(CWD, chart))
            /\ log' = log
            /\ fails' = fails
       ELSE /\ fails < MaxFail
            /\ fails' = fails + 1
            /\ log' = log \o << LogEntry("ERROR", "plot_failed", 0) >>
            /\ UNCHANGED << files, plot_paths >>

PlotPresent ==
    /\ pc = "plot_present"
    /\ \E ok \in BOOLEAN : PlotCounts(PresentChart, ok)
    /\ pc' = "plot_class"
    /\ UNCHANGED << reports, sample_names, sample_idx, all_mo_tables, all_amr_tables,
                    final_mo_df, final_amr_df, total_reads_dict, table_paths, ra_todo,
                    ra_entries, move_idx, printed, xin, xout >>

\* the class chart, then the first lines of plot_relative_abundance
PlotClass ==
    /\ pc = "plot_class"
    /\ \E ok \in BOOLEAN : PlotCounts(ClassChart, ok)
    /\ ra_todo' = UniqueSamples(PresentRows(final_mo_df), {})
    /\ pc' = "plot_abundance"
    /\ UNCHANGED << reports, sample_names, sample_idx, all_mo_tables, all_amr_tables,
                    final_mo_df, final_amr_df, total_reads_dict, table_paths,
                    ra_entries, move_idx, printed, xin, xout >>

\* one pass of "for sample_name in sample_with_present_mo"
PlotAbundance ==
    /\ pc = "plot_abundance"
    /\ ra_todo # << >>
    /\ LET sample_name == Head(ra_todo)
           chart == AbundanceChart(sample_name)
       IN  IF TotalIsUsable(total_reads_dict, sample_name)
           THEN /\ ra_entries' = ra_entries @@
                      (sample_name :> AbundanceEntries(final_mo_df, total_reads_dict,
                                                       sample_name))
                /\ attempted' = attempted \cup { << "chart", chart >> }
                /\ \E ok \in BOOLEAN :
                      IF ok
                      THEN /\ files' = [files EXCEPT ![InDir(CWD, chart)] = "new"]
                           /\ plot_paths' = Append(plot_paths, InDir(CWD, chart))
                           /\ log' = log
                           /\ fails' = fails
                      ELSE /\ fails < MaxFail
                           /\ fails' = fails + 1
                           /\ log' = log \o << LogEntry("ERROR", "abundance_plot_failed",
                                                        sample_name[2]) >>
                           /\ UNCHANGED << files, plot_paths >>
           ELSE /\ log' = log \o << LogEntry("WARNING", "abundance_skipped",
                                             sample_name[2]) >>
                /\ UNCHANGED << ra_entries, attempted, files, plot_paths, fails >>
    /\ ra_todo' = Tail(ra_todo)
    /\ UNCHANGED << pc, reports, sample_names, sample_idx, all_mo_tables,
                    all_amr_tables, final_mo_df, final_amr_df, total_reads_dict,
                    table_paths, move_idx, printed, xin, xout >>

\* plot_relative_abundance returns; move_results(table_paths, TABLES_DIR) starts
StartMoveTables ==
    /\ pc = "plot_abundance"
    /\ ra_todo = << >>
    /\ pc' = "move_tables"
    /\ move_idx' = 1
    /\ UNCHANGED << reports, sample_names, sample_idx, all_mo_tables, all_amr_tables,
                    final_mo_df, final_amr_df, total_reads_dict, table_paths,
                    plot_paths, ra_todo, ra_entries, files, log, printed, fails,
                    attempted, xin, xout >>

\* move_results with the try around the whole loop: a failure ends the loop
MoveStepTryAroundLoop(file_paths, target_dir) ==
    /\ move_idx <= Len(file_paths)
    /\ \E outcome \in MoveOutcomes(files, file_paths[move_idx], target_dir) :
          /\ outcome # "ok" => fails < MaxFail
          /\ fails' = IF outcome = "ok" THEN fails ELSE fails + 1
          /\ files' = MoveOne(files, file_paths[move_idx], target_dir, outcome)
          /\ log' = log \o MoveOneLog(files, file_paths[move_idx], target_dir, outcome)
          /\ move_idx' = IF outcome = "ok" THEN move_idx + 1 ELSE Len(file_paths) + 1
    /\ attempted' = attempted \cup { << "move", file_paths[move_idx][2] >> }

\* one pass of the loop of move_results over file_paths
MoveStep(file_paths, target_dir) ==
    /\ move_idx <= Len(file_paths)
    /\ \E outcome \in MoveOutcomes(files, file_paths[move_idx], target_dir) :
          /\ outcome # "ok" => fails < MaxFail
          /\ fails' = IF outcome = "ok" THEN fails ELSE fails + 1
          /\ files' = MoveOne(files, file_paths[move_idx], target_dir, outcome)
          /\ log' = log \o MoveOneLog(files, file_paths[move_idx], target_dir, outcome)
    /\ attempted' = attempted \cup { << "move", file_paths[move_idx][2] >> }
    /\ move_idx' = move_idx + 1

MoveTables ==
    /\ pc = "move_tables"
    /\ MoveStep(table_paths, TABLES_DIR)
    /\ UNCHANGED << pc, reports, sample_names, sample_idx, all_mo_tables,
                    all_amr_tables, final_mo_df, final_amr_df, total_reads_dict,
                    table_paths, plot_paths, ra_todo, ra_entries, printed, xin, xout >>

\* move_results(plot_paths, PLOTS_DIR) starts
StartMovePlots ==
    /\ pc = "move_tables"
    /\ move_idx > Len(table_paths)
    /\ pc' = "move_plots"
    /\ move_idx' = 1
    /\ UNCHANGED << reports, sample_names, sample_idx, all_mo_tables, all_amr_tables,
                    final_mo_df, final_amr_df, total_reads_dict, table_paths,
                    plot_paths, ra_todo, ra_entries, files, log, printed, fails,
                    attempted, xin, xout >>

MovePlots ==
    /\ pc = "move_plots"
    /\ MoveStep(plot_paths, PLOTS_DIR)
    /\ UNCHANGED << pc, reports, sample_names, sample_idx, all_mo_tables,
                    all_amr_tables, final_mo_df, final_amr_df, total_reads_dict,
                    table_paths, plot_paths, ra_todo, ra_entries, printed, xin, xout >>

\* the last two lines of the try block
Finish ==
    /\ pc = "move_plots"
    /\ move_idx > Len(plot_paths)
    /\ log' = log \o << LogEntry("INFO", "complete", 0) >>
    /\ printed' = "success"
    /\ pc' = "done"
    /\ UNCHANGED << reports, sample_names, sample_idx, all_mo_tables, all_amr_tables,
                    final_mo_df, final_amr_df, total_reads_dict, table_paths,
                    plot_paths, ra_todo, ra_entries, move_idx, files, fails,
                    attempted, xin, xout >>

Next ==
    \/ SetupOk
    \/ SetupFails
    \/ Discover
    \/ ProcessSample
    \/ NoData
    \/ ConcatRaises
    \/ ConcatTables
    \/ ExportTables
    \/ ExportFails
    \/ PlotPresent
    \/ PlotClass
    \/ PlotAbundance
    \/ StartMoveTables
    \/ MoveTables
    \/ StartMovePlots
    \/ MovePlots
    \/ Finish

Spec == Init /\ [][Next]_vars

---------------------------------------------------------------------------
(* The extractors of utils.py applied to one report at a time *)

SeqsUpTo(S, n) == UNION { [1..k -> S] : k \in 0..n }

MoItemPool ==
    { MoItem(Str(1), arc, ani, Str(1), ei) :
        arc \in { Absent, Num(5), Num(6), Str(9) },
        ani \in { Absent, Num(12344), Null },
        ei \in { EIAbsent, EINull, EIObj(Absent), EIObj(Bool(TRUE)), EIObj(Bool(FALSE)) } }
    \cup { MoNullItem }

AmrItemPool ==
    { AmrItem(Str(3), coverage, am, ei) :
        coverage \in { Absent, Num(87654), Null },
        am \in { AMAbsent, AMNull, AMObj(ListAbsent), AMObj(ListNull),
                 AMObj(ListOf(<< >>)), AMObj(ListOf(<< Str(1) >>)),
                 AMObj(ListOf(<< Str(2), Str(1) >>)) },
        ei \in { EIAbsent, EIObj(Bool(TRUE)) } }
    \cup { AmrNullItem }

UnusableFiles ==
    { FileNotFound, FileBadJson, FileIOError, FileOk(DocNull), FileOk(DocObj(TRAbsent)),
      FileOk(DocObj(TRNull)), FileOk(DocObj(TRObj(ListAbsent, ListAbsent))),
      FileOk(DocObj(TRObj(ListNull, ListNull))) }

MoFiles ==
    UnusableFiles
    \cup { FileOk(DocObj(TRObj(ListOf(items), ListAbsent))) :
             items \in SeqsUpTo(MoItemPool, MaxItems) }

AmrFiles ==
    UnusableFiles
    \cup { FileOk(DocObj(TRObj(ListAbsent, ListOf(items)))) :
             items \in SeqsUpTo(AmrItemPool, MaxItems) }

InitExtract ==
    /\ pc = "extract"
    /\ reports = << >>
    /\ sample_names = << >>
    /\ sample_idx = 0
    /\ all_mo_tables = << >>
    /\ all_amr_tables = << >>
    /\ final_mo_df = NoTable
    /\ final_amr_df = NoTable
    /\ total_reads_dict = NoTotals
    /\ table_paths = << >>
    /\ plot_paths = << >>
    /\ ra_todo = << >>
    /\ ra_entries = NoTotals
    /\ move_idx = 0
    /\ files = [p \in Paths |-> "none"]
    /\ log = << >>
    /\ printed = "none"
    /\ fails = 0
    /\ attempted = {}
    /\ xin = HarnessIdle
    /\ xout = HarnessNoResult

CallProcessMicroorganisms ==
    /\ pc = "extract"
    /\ xin.call = "none"
    /\ \E file \in MoFiles :
          /\ xin' = [call |-> "mo", sample |-> 1, file |-> file]
          /\ xout' = process_microorganisms(1, file)
    /\ log' = log \o xout'.log
    /\ UNCHANGED << pc, reports, sample_names, sample_idx, all_mo_tables,
                    all_amr_tables, final_mo_df, final_amr_df, total_reads_dict,
                    table_paths, plot_paths, ra_todo, ra_entries, move_idx, files,
                    printed, fails, attempted >>

CallProcessAmrMarkers ==
    /\ pc = "extract"
    /\ xin.call = "none"
    /\ \E file \in AmrFiles :
          /\ xin' = [call |-> "amr", sample |-> 1, file |-> file]
          /\ xout' = process_amr_markers(1, file)
    /\ log' = log \o xout'.log
    /\ UNCHANGED << pc, reports, sample_names, sample_idx, all_mo_tables,
                    all_amr_tables, final_mo_df, final_amr_df, total_reads_dict,
                    table_paths, plot_paths, ra_todo, ra_entries, move_idx, files,
                    printed, fails, attempted >>

NextExtract == CallProcessMicroorganisms \/ CallProcessAmrMarkers

SpecExtract == InitExtract /\ [][NextExtract]_vars

---------------------------------------------------------------------------
(* move_results applied to any list of paths, with no call raising *)

CwdPaths == { InDir(CWD, MoTable), InDir(CWD, AmrTable) }

InitMove ==
    /\ pc = "move_results"
    /\ reports = << >>
    /\ sample_names = << >>
    /\ sample_idx = 0
    /\ all_mo_tables = << >>
    /\ all_amr_tables = << >>
    /\ final_mo_df = NoTable
    /\ final_amr_df = NoTable
    /\ total_reads_dict = NoTotals
    /\ table_paths \in SeqsUpTo(CwdPaths, MaxPaths)
    /\ plot_paths = << >>
    /\ ra_todo = << >>
    /\ ra_entries = NoTotals
    /\ move_idx = 1
    /\ \E src \in [CwdPaths -> {"none", "new"}] :
       \E dst \in [TableNames -> {"none", "old"}] :
          files = [p \in Paths |->
                     IF p \in CwdPaths THEN src[p]
                     ELSE IF p[1] = TABLES_DIR THEN dst[p[2]]
                     ELSE "none"]
    /\ log = << >>
    /\ printed = "none"
    /\ fails = 0
    /\ attempted = {}
    /\ xin = HarnessIdle
    /\ xout = HarnessNoResult

MoveResultsPass ==
    /\ pc = "move_results"
    /\ move_idx <= Len(table_paths)
    /\ files' = MoveOne(files, table_paths[move_idx], TABLES_DIR, "ok")
    /\ log' = log \o MoveOneLog(files, table_paths[move_idx], TABLES_DIR, "ok")
    /\ move_idx' = move_idx + 1
    /\ UNCHANGED << pc, reports, sample_names, sample_idx, all_mo_tables,
                    all_amr_tables, final_mo_df, final_amr_df, total_reads_dict,
                    table_paths, plot_paths, ra_todo, ra_entries, printed, fails,
                    attempted, xin, xout >>

MoveResultsReturn ==
    /\ pc = "move_results"
    /\ move_idx > Len(table_paths)
    /\ pc' = "returned"
    /\ UNCHANGED << reports, sample_names, sample_idx, all_mo_tables, all_amr_tables,
                    final_mo_df, final_amr_df, total_reads_dict, table_paths,
                    plot_paths, ra_todo, ra_entries, move_idx, files, log, printed,
                    fails, attempted, xin, xout >>

NextMove == MoveResultsPass \/ MoveResultsReturn

SpecMove == InitMove /\ [][NextMove]_vars

---------------------------------------------------------------------------
(* Properties of the extractors (SpecExtract) *)

\* the list handed to the extractor, when the report carries one
GivenItems ==
    IF xin.call = "mo"
    THEN xin.file.doc.targetReport.microorganisms.items
    ELSE xin.file.doc.targetReport.amrMarkers.items

GivenNonEmptyList ==
    /\ xin.call # "none"
    /\ xin.file.load = "ok"
    /\ xin.file.doc.k = "obj"
    /\ xin.file.doc.targetReport.k = "obj"
    /\ Len(GivenItems) > 0

\* the entry as the report states it: a missing flag is false, a missing
\* count is 0
StatedPresent(item) ==
    /\ item.explifyInterpretation.k = "obj"
    /\ item.explifyInterpretation.predictedPresent = Bool(TRUE)

StatedCount(item) ==
    IF item.alignedReadCount.t = "num" THEN item.alignedReadCount.v ELSE 0

\* C4: a report with a non-empty microorganism list yields exactly one record
\* per entry, in list order, whatever is wrong inside single entries (a key
\* missing, a null nested object, a non-numeric value in a rounded field)
C4_OneRecordPerEntry ==
    ( /\ xin.call = "mo"
      /\ GivenNonEmptyList
      /\ \A i \in 1..Len(GivenItems) : GivenItems[i].k = "obj" ) =>
        /\ ~xout.isNone
        /\ Len(xout.rows) = Len(GivenItems)
        /\ \A i \in 1..Len(GivenItems) :
              xout.rows[i].alignedReadCount = Get(GivenItems[i].alignedReadCount, Num(0))

\* the entry is well formed apart from its associated-microorganism list
AmrEntryOtherwiseFine(item) ==
    /\ item.k = "obj"
    /\ IsNumeric(Get(item.coverage, Num(0)))
    /\ item.explifyInterpretation.k # "null"
    /\ item.associatedMicroorganisms.k # "null"
    /\ item.associatedMicroorganisms.all.k # "null"

AssociatedListMissingOrEmpty(item) ==
    \/ item.associatedMicroorganisms.k = "absent"
    \/ item.associatedMicroorganisms.all.k = "absent"
    \/ Len(item.associatedMicroorganisms.all.items) = 0

\* C5: an AMR entry whose associated-microorganism list is missing or empty
\* yields a record with a null associated microorganism, the other records
\* of the sample are returned as well, and a non-empty list yields its first
\* element

C5_AssociatedNullWhenMissingOrEmpty ==
    ( /\ xin.call = "amr"
      /\ GivenNonEmptyList
      /\ \A i \in 1..Len(GivenItems) : AmrEntryOtherwiseFine(GivenItems[i]) ) =>
        /\ ~xout.isNone
        /\ Len(xout.rows) = Len(GivenItems)
        /\ \A i \in 1..Len(GivenItems) :
              xout.rows[i].associatedMicroorganisms =
                  IF AssociatedListMissingOrEmpty(GivenItems[i])
                  THEN Null
                  ELSE GivenItems[i].associatedMicroorganisms.all.items[1]

\* C8: every microorganism record's Presence flag is
\* (predicted-present OR alignedReadCount > 5), a missing count being 0 and a
\* missing flag false; 5 with flag false gives false, 6 gives true
C8_PresenceFlag ==
    (xin.call = "mo" /\ ~xout.isNone) =>
        \A i \in 1..Len(xout.rows) :
            /\ xout.rows[i].Presence.t = "bool"
            /\ (xout.rows[i].Presence.v = 1) <=>
                   (StatedPresent(GivenItems[i]) \/ StatedCount(GivenItems[i]) > 5)

\* records at the threshold, above it, and with the count missing
C8_Witness ==
    /\ xin.call = "mo"
    /\ ~xout.isNone
    /\ Len(xout.rows) = 2
    /\ ~StatedPresent(GivenItems[1]) /\ GivenItems[1].alignedReadCount = Num(5)
    /\ xout.rows[1].Presence = Bool(FALSE)
    /\ ~StatedPresent(GivenItems[2]) /\ GivenItems[2].alignedReadCount = Num(6)
    /\ xout.rows[2].Presence = Bool(TRUE)

---------------------------------------------------------------------------
(* Properties of a run of main() (Spec) *)

Unloadable(s) == reports[s].load # "ok"

\* the loop over the samples has run to its end
LoopOver == sample_names # << >> /\ sample_idx > Len(sample_names)

NoMoRowsOf(s) ==
    /\ \A t \in 1..Len(all_mo_tables) : \A i \in 1..Len(all_mo_tables[t].rows) :
          all_mo_tables[t].rows[i].Sample # SampleLabel(s)
    /\ \A i \in 1..Len(final_mo_df) : final_mo_df[i].Sample # SampleLabel(s)

NoAmrRowsOf(s) ==
    /\ \A t \in 1..Len(all_amr_tables) : \A i \in 1..Len(all_amr_tables[t].rows) :
          all_amr_tables[t].rows[i].SampleID # SampleLabel(s)
    /\ \A i \in 1..Len(final_amr_df) : final_amr_df[i].SampleID # SampleLabel(s)

\* the list of sample s holds only complete entries
StatedMoItems(s) == reports[s].doc.targetReport.microorganisms.items

HasUsableMoList(s) ==
    /\ reports[s].load = "ok"
    /\ StatedMoItems(s) # << >>
    /\ \A i \in 1..Len(StatedMoItems(s)) : StatedMoItems(s)[i].k = "obj"

\* sample s was passed by the loop and its records were collected
MoRowsCollected(s) ==
    \E t \in 1..Len(all_mo_tables) :
        /\ Len(all_mo_tables[t].rows) = Len(StatedMoItems(s))
        /\ \A i \in 1..Len(all_mo_tables[t].rows) :
              all_mo_tables[t].rows[i].Sample = SampleLabel(s)

\* C1: a sample whose report cannot be loaded (missing, malformed, unreadable)
\* contributes no row to either table, the per-sample step raises nothing
\* (the run never ends inside the loop), and every later sample is processed
C1_UnloadableSampleIsolated ==
    \A s \in DOMAIN reports :
        Unloadable(s) =>
            /\ NoMoRowsOf(s)
            /\ NoAmrRowsOf(s)
            /\ (pc = "done" /\ sample_names # << >>) => sample_idx > Len(sample_names)
            /\ \A later \in DOMAIN reports :
                  (later > s /\ LoopOver /\ HasUsableMoList(later)) => MoRowsCollected(later)

\* the first report is missing, the second sample's rows are in the table
C1_Witness ==
    /\ pc = "done"
    /\ printed = "success"
    /\ Len(sample_names) = 2
    /\ Unloadable(1)
    /\ final_mo_df # << >>
    /\ \A i \in 1..Len(final_mo_df) : final_mo_df[i].Sample = SampleLabel(2)

ErrorLogged == LogFile(log) # << >>

NoTableWritten ==
    \A p \in Paths : p[2] \in TableNames => files[p] # "new"

\* C2: when no sample yields a record of either kind, the run ends fatally:
\* logged, with the failure message, and with no table written
C2_NoDataEndsWithFailureMessage ==
    (pc = "done" /\ LoopOver /\ all_mo_tables = << >> /\ all_amr_tables = << >>) =>
        /\ ErrorLogged
        /\ printed = "fatal"
        /\ NoTableWritten

\* C3: with the directories in place and no I/O call failing, a run in which
\* some sample yields records of at least one kind does not abort: both
\* tables are exported with the rows collected and the run reports success
C3_AbortOnlyWhenBothTablesEmpty ==
    ( /\ pc = "done"
      /\ LoopOver
      /\ fails = 0
      /\ all_mo_tables # << >> \/ all_amr_tables # << >> ) =>
        /\ printed = "success"
        /\ files[InDir(TABLES_DIR, MoTable)] = "new"
        /\ files[InDir(TABLES_DIR, AmrTable)] = "new"
        /\ final_mo_df = Concat(all_mo_tables)
        /\ final_amr_df = Concat(all_amr_tables)

\* plot_relative_abundance has returned
AbundanceDone ==
    \/ pc \in {"move_tables", "move_plots"}
    \/ pc = "done" /\ printed = "success"

Labels == { SampleLabel(s) : s \in DOMAIN reports }

RECURSIVE ReadsInTable(_, _)
\* the aligned reads of all rows of the table that carry the label
ReadsInTable(df, label) ==
    IF df = << >> THEN 0
    ELSE (IF Head(df).Sample = label THEN Head(df).alignedReadCount.v ELSE 0)
         + ReadsInTable(Tail(df), label)

PresentRowIndexes(label) ==
    { i \in 1..Len(final_mo_df) :
        final_mo_df[i].Sample = label /\ final_mo_df[i].predictedPresent = Bool(TRUE) }

SkipWarned(label) ==
    \E i \in 1..Len(log) :
        /\ log[i].level = "WARNING"
        /\ log[i].what = "abundance_skipped"
        /\ log[i].sample = label[2]

RECURSIVE StatedReads(_, _)
\* the aligned reads a report states; onlyPresent keeps the predicted-present
StatedReads(items, onlyPresent) ==
    IF items = << >> THEN 0
    ELSE (IF onlyPresent /\ ~StatedPresent(Head(items)) THEN 0
          ELSE StatedCount(Head(items)))
         + StatedReads(Tail(items), onlyPresent)

RECURSIVE SumNumerators(_)
SumNumerators(entries) ==
    IF entries = << >> THEN 0
    ELSE Head(entries).relativeAbundance.num + SumNumerators(Tail(entries))

\* C7: the denominator of a sample is the sum of alignedReadCount over all
\* records of that sample (present or not, duplicates included) and of no
\* other sample; hence the percentages of a sample, summed and multiplied by
\* the total, give 100 times the reads of its predicted-present records,
\* which is below 100 per cent when a non-present record has reads
C7_DenominatorIsSampleTotal ==
    \A label \in DOMAIN ra_entries :
        LET items == StatedMoItems(label[2])
            total == StatedReads(items, FALSE)
            present == StatedReads(items, TRUE)
        IN  /\ \A i \in 1..Len(ra_entries[label]) :
                  ra_entries[label][i].relativeAbundance.den = total
            /\ SumNumerators(ra_entries[label]) = 100 * present
            /\ (\E i \in 1..Len(items) :
                    ~StatedPresent(items[i]) /\ StatedCount(items[i]) > 0) =>
                   SumNumerators(ra_entries[label]) < 100 * total

\* two samples with records; one has a non-present record with reads
C7_Witness ==
    /\ pc = "done"
    /\ printed = "success"
    /\ \E a \in Labels, b \in Labels :
          /\ a # b
          /\ a \in DOMAIN ra_entries
          /\ b \in DOMAIN ra_entries
          /\ SumNumerators(ra_entries[a]) < 100 * StatedReads(StatedMoItems(a[2]), FALSE)
          /\ Len(ra_entries[b]) = 3
          /\ ra_entries[b][1].alignedReadCount = 80

Artifacts == { table_paths[i] : i \in 1..Len(table_paths) }
                 \cup { plot_paths[i] : i \in 1..Len(plot_paths) }

Destination(path) ==
    InDir(IF path[2] \in TableNames THEN TABLES_DIR ELSE PLOTS_DIR, path[2])

CountLogged(what) == Cardinality({ i \in 1..Len(log) : log[i].what = what })

ChartsDue ==
    { << "chart", PresentChart >>, << "chart", ClassChart >> }
    \cup { << "chart", AbundanceChart(label) >> :
             label \in { l \in Labels : PresentRowIndexes(l) # {}
                                         /\ ReadsInTable(final_mo_df, l) > 0 } }

\* C9: once the tables are built and exported, a failing chart or relocation
\* is logged and does not end the run: every chart is still attempted, every
\* artifact is still handed to the relocation, no more artifacts miss their
\* destination than relocations failed, nothing written is lost, and the run
\* ends with the success message
C9_ArtifactFailureDoesNotAbort ==
    (pc = "done" /\ table_paths # << >>) =>
        /\ printed = "success"
        /\ ChartsDue \subseteq attempted
        /\ \A p \in Artifacts : << "move", p[2] >> \in attempted
        /\ Len(plot_paths) + CountLogged("plot_failed") + CountLogged("abundance_plot_failed")
               = Cardinality(ChartsDue)
        /\ Cardinality({ p \in Artifacts : files[Destination(p)] # "new" })
               <= CountLogged("move_failed")
        /\ \A p \in Artifacts : files[p] = "new" \/ files[Destination(p)] = "new"
        /\ fails > 0 => ErrorLogged

\* the first table's relocation failed, the second table was still relocated
C9_Witness ==
    /\ pc = "done"
    /\ printed = "success"
    /\ CountLogged("move_failed") = 1
    /\ files[InDir(TABLES_DIR, MoTable)] # "new"
    /\ files[InDir(TABLES_DIR, AmrTable)] = "new"
    /\ \A p \in Artifacts : p[2] # MoTable => files[Destination(p)] = "new"

---------------------------------------------------------------------------
(* Property of move_results (SpecMove) *)

\* C10: move_results never leaves a destination empty that held a file
\* before: the old file is removed only when the new one takes its place
C10_DestinationNeverEmptied ==
    [][\A p \in DestPaths : files[p] # "none" => files'[p] # "none"]_vars

====
